---- MODULE Spec2Model ----
(***************************************************************************)
(* Model of AbstractCheckRunner                                            *)
(* (packages/cli/src/services/abstract-check-runner.ts).                   *)
(*                                                                         *)
(* One run() of one runner object.  The JavaScript event loop is modelled  *)
(* by one action per macrotask: every action runs the synchronous code of  *)
(* a continuation up to its next real suspension point (broker I/O, REST   *)
(* call, timer).  EventEmitter.emit is synchronous, so the listeners that  *)
(* the runner installs on itself run inside the emitting action.           *)
(***************************************************************************)
EXTENDS Integers, Sequences, FiniteSets, TLC

(* ---------------------------------------------------------------- bounds *)
\* identifiers the scheduling collaborator may hand out
CheckRunIds == {"c1", "c2"}
\* a checkRunId that is never part of the batch
UnknownIds == {"cx"}
\* number of broker messages delivered during one run
MaxMessages == 2

(* ----------------------------------------------------------------- state *)
VARIABLES
  pc,                  \* position of run(): the await it is suspended on
  socketClient,        \* local socketClient of run(): "null", "open", "ended"
  endCalls,            \* number of socketClient.end() calls
  subscribed,          \* client.subscribe() has completed
  scheduleCalls,       \* number of scheduleChecks() invocations
  verbose,             \* this.verbose
  checks,              \* this.checks: checkRunId -> [testResultId]
  testSessionId,       \* this.testSessionId
  timeouts,            \* key set of this.timeouts (live per-check timers)
  schedTimer,          \* this.schedulingDelayExceededTimeout and its timer
  queue,               \* jobs waiting in this.queue
  isPaused,            \* the queue has not been started
  pending,             \* the processMessage job in progress, or NoTask
  handlerInstalled,    \* socketClient.on('message', ...) was called
  events,              \* lifecycle events emitted so far, in order
  listening,           \* the CHECK_FINISHED / CHECK_INPROGRESS listeners exist
  numChecks,           \* numChecks captured by the two listeners
  finishedCheckCount,  \* closure variable of allChecksFinished()
  scheduledCheckCount, \* closure variable of startSchedulingDelayTimeout()
  completion,          \* the promise returned by allChecksFinished()
  received,            \* number of broker messages delivered so far
  failure,             \* history: the await of run() that rejected, or "none"
  lastJob              \* history: the job the queue started last, and whether
                       \* its checkRunId had a Timeout Entry at that moment

vars == <<pc, socketClient, endCalls, subscribed, scheduleCalls, verbose,
          checks, testSessionId, timeouts, schedTimer, queue, isPaused,
          pending, handlerInstalled, events, listening, numChecks,
          finishedCheckCount, scheduledCheckCount, completion, received,
          failure, lastJob>>

NoJob == [subtopic |-> "none", checkRunId |-> "none", live |-> FALSE]
NoTask == [stage |-> "none"]
NoResult == [assets |-> FALSE, logPath |-> FALSE, checkRunDataPath |-> FALSE,
             hasFailures |-> FALSE]

\* message.result of a run-end message: does result.assets exist, are
\* logPath / checkRunDataPath truthy, result.hasFailures
PassedWithAssets ==
  [assets |-> TRUE, logPath |-> TRUE, checkRunDataPath |-> TRUE,
   hasFailures |-> FALSE]
FailedWithAssets ==
  [assets |-> TRUE, logPath |-> TRUE, checkRunDataPath |-> TRUE,
   hasFailures |-> TRUE]
FailedNoAssetPaths ==
  [assets |-> TRUE, logPath |-> FALSE, checkRunDataPath |-> FALSE,
   hasFailures |-> TRUE]

Results == {PassedWithAssets, FailedWithAssets, FailedNoAssetPaths}

Subtopics == {"run-start", "run-end", "error", "run-log"}

\* (checkRunId, subtopic, message) triples the message handler enqueues;
\* one run-end result is enough for an id outside the batch
Messages ==
  { [checkRunId |-> c, subtopic |-> t, result |-> NoResult] :
      c \in CheckRunIds \cup UnknownIds, t \in Subtopics \ {"run-end"} }
  \cup
  { [checkRunId |-> c, subtopic |-> "run-end", result |-> r] :
      c \in CheckRunIds, r \in Results }
  \cup
  { [checkRunId |-> c, subtopic |-> "run-end", result |-> FailedWithAssets] :
      c \in UnknownIds }

\* results of scheduleChecks(): the batch and which checks carry a testResultId
Batches ==
  { [c \in b |-> [testResultId |-> tr]] :
      b \in SUBSET CheckRunIds, tr \in BOOLEAN }

Event(type, checkRunId, detail) ==
  [type |-> type, checkRunId |-> checkRunId, detail |-> detail]


(* ------------------------------------------------- the runner as a record *)
\* The fields that emitting an event or handling a message can change.
Runner ==
  [timeouts |-> timeouts, schedTimer |-> schedTimer, pending |-> pending,
   events |-> events, finishedCheckCount |-> finishedCheckCount,
   scheduledCheckCount |-> scheduledCheckCount, completion |-> completion]

Commit(r) ==
  /\ timeouts' = r.timeouts
  /\ schedTimer' = r.schedTimer
  /\ pending' = r.pending
  /\ events' = r.events
  /\ finishedCheckCount' = r.finishedCheckCount
  /\ scheduledCheckCount' = r.scheduledCheckCount
  /\ completion' = r.completion

\* mutant: resolve on the first CHECK_FINISHED, whatever numChecks is
onCheckFinishedResolvesAtOnce(r) ==
  [r EXCEPT !.finishedCheckCount = @ + 1, !.completion = "resolved"]

\* listener installed by allChecksFinished(): this.on(CHECK_FINISHED, ...)
onCheckFinished(r) ==
  [r EXCEPT !.finishedCheckCount = @ + 1,
            !.completion = IF r.finishedCheckCount + 1 = numChecks
                           THEN "resolved" ELSE @]

\* listener installed by startSchedulingDelayTimeout():
\* this.on(CHECK_INPROGRESS, ...); clearTimeout leaves the field set
onCheckInProgress(r) ==
  [r EXCEPT !.scheduledCheckCount = @ + 1,
            !.schedTimer = IF r.scheduledCheckCount + 1 = numChecks
                              /\ @ = "pending"
                           THEN "cleared" ELSE @]

\* this.emit(...): record the event, then run the runner's own listeners
emit(r, ev) ==
  LET r1 == [r EXCEPT !.events = Append(@, ev)]
  IN  IF listening /\ ev.type = "CHECK_FINISHED" THEN onCheckFinished(r1)
      ELSE IF listening /\ ev.type = "CHECK_INPROGRESS" THEN onCheckInProgress(r1)
      ELSE r1

\* mutant: the timer is neither cleared nor removed
disableTimeoutLeavesTimer(r, timeoutKey) == r

\* disableTimeout(timeoutKey): clearTimeout + this.timeouts.delete
disableTimeout(r, timeoutKey) ==
  [r EXCEPT !.timeouts = @ \ {timeoutKey}]

\* mutant: the catch block does not cancel anything
disableAllTimeoutsOfNothing(r, registered) == r

\* disableAllTimeouts() when this.checks is `registered`: this.checks is
\* always a Map, so no early return
disableAllTimeoutsOf(r, registered) ==
  [r EXCEPT !.timeouts = @ \ DOMAIN registered,
            !.schedTimer = IF @ \in {"pending", "cleared"} THEN "disabled" ELSE @]

disableAllTimeouts(r) == disableAllTimeoutsOf(r, checks)

(* ------------------------------------------------------ message processing *)
\* emit CHECK_SUCCESSFUL then CHECK_FINISHED (lines 146-147); the job is over
reportResult(r, checkRunId, links) ==
  LET r1 == emit(r, Event("CHECK_SUCCESSFUL", checkRunId, links))
      r2 == emit(r1, Event("CHECK_FINISHED", checkRunId, "check"))
  IN  [r2 EXCEPT !.pending = NoTask]

\* line 145: testResultId && result.hasFailures && await this.getShortLinks()
\* getShortLinks returns undefined at once when there is no testSessionId
fetchLinks(r, checkRunId, result) ==
  IF checks[checkRunId].testResultId /\ result.hasFailures
  THEN IF testSessionId = "none"
       THEN reportResult(r, checkRunId, "undefined")
       ELSE [r EXCEPT !.pending = [stage |-> "getResultShortLinks",
                                   checkRunId |-> checkRunId, result |-> result]]
  ELSE reportResult(r, checkRunId, "falsy")

wantsAssets(result) == verbose \/ result.hasFailures

\* second half of processCheckResult(): the checkRunData fetch
fetchCheckRunData(r, checkRunId, result) ==
  IF result.checkRunDataPath /\ wantsAssets(result)
  THEN [r EXCEPT !.pending = [stage |-> "getCheckRunData",
                              checkRunId |-> checkRunId, result |-> result]]
  ELSE fetchLinks(r, checkRunId, result)

\* processCheckResult(result): destructuring result.assets throws when the
\* result has no assets; the rejection ends the job without any emit
processCheckResult(r, checkRunId, result) ==
  IF ~result.assets THEN [r EXCEPT !.pending = NoTask]
  ELSE IF result.logPath /\ wantsAssets(result)
  THEN [r EXCEPT !.pending = [stage |-> "getLogs",
                              checkRunId |-> checkRunId, result |-> result]]
  ELSE fetchCheckRunData(r, checkRunId, result)

\* mutant: the guard looks the id up in this.checks instead of this.timeouts
hasTimeoutLooksAtChecks(r, checkRunId) == checkRunId \in DOMAIN checks

\* mutant: the guard is missing
hasTimeoutNotChecked(r, checkRunId) == TRUE

hasTimeout(r, checkRunId) == checkRunId \in r.timeouts

hasCheck(checkRunId) == checkRunId \in DOMAIN checks

\* processMessage(checkRunId, subtopic, message) up to its first suspension
processMessage(r, m) ==
  IF ~hasTimeout(r, m.checkRunId) THEN r
  ELSE IF ~hasCheck(m.checkRunId) THEN r
  ELSE IF m.subtopic = "run-start"
  THEN emit(r, Event("CHECK_INPROGRESS", m.checkRunId, "check"))
  ELSE IF m.subtopic = "run-end"
  THEN processCheckResult(disableTimeout(r, m.checkRunId), m.checkRunId, m.result)
  ELSE IF m.subtopic = "error"
  THEN LET r1 == disableTimeout(r, m.checkRunId)
           r2 == emit(r1, Event("CHECK_FAILED", m.checkRunId, "message"))
       IN  emit(r2, Event("CHECK_FINISHED", m.checkRunId, "check"))
  ELSE r

\* mutant: the callback clears the whole registry instead of its own entry
timeoutCallbackClearsRegistry(r, checkRunId) ==
  LET r1 == [r EXCEPT !.timeouts = {}]
      r2 == emit(r1, Event("CHECK_FAILED", checkRunId, "timeout"))
  IN  emit(r2, Event("CHECK_FINISHED", checkRunId, "check"))

\* callback of the per-check timer armed by setAllTimeouts()
timeoutCallback(r, checkRunId) ==
  LET r1 == [r EXCEPT !.timeouts = @ \ {checkRunId}]
      r2 == emit(r1, Event("CHECK_FAILED", checkRunId, "timeout"))
  IN  emit(r2, Event("CHECK_FINISHED", checkRunId, "check"))

(* ------------------------------------------------------------------ Init *)
\* testSessionId values scheduleChecks() may return ("none": undefined)
SessionIds == {"none", "ts1"}

\* mutant: the queue is constructed without autoStart: false
InitAutoStart ==
  /\ pc = "idle"
  /\ socketClient = "null"
  /\ endCalls = 0
  /\ subscribed = FALSE
  /\ scheduleCalls = 0
  /\ verbose \in BOOLEAN
  /\ checks = [c \in {} |-> [testResultId |-> FALSE]]
  /\ testSessionId = "none"
  /\ timeouts = {}
  /\ schedTimer = "unset"
  /\ queue = <<>>
  /\ isPaused = FALSE
  /\ pending = NoTask
  /\ handlerInstalled = FALSE
  /\ events = <<>>
  /\ listening = FALSE
  /\ numChecks = 0
  /\ finishedCheckCount = 0
  /\ scheduledCheckCount = 0
  /\ completion = "none"
  /\ received = 0
  /\ failure = "none"
  /\ lastJob = NoJob

Init ==
  /\ pc = "idle"
  /\ socketClient = "null"
  /\ endCalls = 0
  /\ subscribed = FALSE
  /\ scheduleCalls = 0
  /\ verbose \in BOOLEAN
  /\ checks = [c \in {} |-> [testResultId |-> FALSE]]
  /\ testSessionId = "none"
  /\ timeouts = {}
  /\ schedTimer = "unset"
  /\ queue = <<>>
  /\ isPaused = TRUE
  /\ pending = NoTask
  /\ handlerInstalled = FALSE
  /\ events = <<>>
  /\ listening = FALSE
  /\ numChecks = 0
  /\ finishedCheckCount = 0
  /\ scheduledCheckCount = 0
  /\ completion = "none"
  /\ received = 0
  /\ failure = "none"
  /\ lastJob = NoJob

(* ------------------------------------------------------------- run() steps *)
\* mutant: the queue does not limit concurrency to one job
JobReadyIgnoresPending == ~isPaused /\ queue # <<>>

\* PQueue with concurrency 1: a job is started synchronously by start(),
\* by add() on an idle queue and by the end of the previous job, so nothing
\* but microtasks can run while a job is ready to start
JobReady == ~isPaused /\ pending = NoTask /\ queue # <<>>

\* catch block of run(): disableAllTimeouts(), emit ERROR
catchError(r) == emit(disableAllTimeouts(r), Event("ERROR", "none", "err"))

\* the catch block reached after this.checks was replaced by `registered`
catchErrorOf(r, registered) ==
  emit(disableAllTimeoutsOf(r, registered), Event("ERROR", "none", "err"))

\* mutant: the socket is not ended on the way out
finallyWithoutEnd(next) == endCalls' = endCalls /\ pc' = next

\* finally block of run(): end the socket only when connect() had returned
finally(next) ==
  IF socketClient' # "null"
  THEN endCalls' = endCalls + 1 /\ pc' = "end"
  ELSE endCalls' = endCalls /\ pc' = next

\* run() is called: runs up to `await SocketClient.connect()`
Run ==
  /\ pc = "idle"
  /\ pc' = "connect"
  /\ UNCHANGED <<socketClient, endCalls, subscribed, scheduleCalls, verbose,
                 checks, testSessionId, timeouts, schedTimer, queue, isPaused,
                 pending, handlerInstalled, events, listening, numChecks,
                 finishedCheckCount, scheduledCheckCount, completion, received,
                 failure, lastJob>>

\* mutant: configureResultListener is not awaited, scheduleChecks is called
\* while the subscription is still in flight
ConnectOkSchedulesAtOnce ==
  /\ pc = "connect"
  /\ socketClient' = "open"
  /\ handlerInstalled' = TRUE
  /\ scheduleCalls' = scheduleCalls + 1
  /\ pc' = "schedule"
  /\ UNCHANGED <<endCalls, subscribed, verbose, checks, testSessionId,
                 timeouts, schedTimer, queue, isPaused, pending, events,
                 listening, numChecks, finishedCheckCount,
                 scheduledCheckCount, completion, received, failure, lastJob>>

\* connect() resolves; configureResultListener installs the handler and
\* calls subscribe()
ConnectOk ==
  /\ pc = "connect"
  /\ socketClient' = "open"
  /\ handlerInstalled' = TRUE
  /\ pc' = "subscribe"
  /\ UNCHANGED <<endCalls, subscribed, scheduleCalls, verbose, checks,
                 testSessionId, timeouts, schedTimer, queue, isPaused, pending,
                 events, listening, numChecks, finishedCheckCount,
                 scheduledCheckCount, completion, received,
                 failure, lastJob>>

\* connect() rejects: catch, finally with socketClient still null
ConnectFail ==
  /\ pc = "connect"
  /\ Commit(catchError(Runner))
  /\ socketClient' = socketClient
  /\ finally("done")
  /\ UNCHANGED <<subscribed, scheduleCalls, verbose, checks, testSessionId,
                 queue, isPaused, handlerInstalled, listening, numChecks,
                 received, lastJob>>
  /\ failure' = "connect"

\* subscribe() resolves; run() calls scheduleChecks(checkRunSuiteId)
SubscribeOk ==
  /\ pc = "subscribe"
  /\ subscribed' = TRUE
  /\ scheduleCalls' = scheduleCalls + 1
  /\ pc' = "schedule"
  /\ UNCHANGED <<socketClient, endCalls, verbose, checks, testSessionId,
                 timeouts, schedTimer, queue, isPaused, pending,
                 handlerInstalled, events, listening, numChecks,
                 finishedCheckCount, scheduledCheckCount, completion, received,
                 failure, lastJob>>

\* subscribe() rejects: catch, finally
SubscribeFail ==
  /\ pc = "subscribe"
  /\ Commit(catchError(Runner))
  /\ socketClient' = socketClient
  /\ finally("done")
  /\ UNCHANGED <<subscribed, scheduleCalls, verbose, checks, testSessionId,
                 queue, isPaused, handlerInstalled, listening, numChecks,
                 received, lastJob>>
  /\ failure' = "subscribe"

\* mutant: the timers are not armed before the queue starts
setAllTimeoutsNotYet(batch) == timeouts

\* mutant: a timer is armed for every known id, scheduled or not
setAllTimeoutsForEveryId(batch) == timeouts \cup CheckRunIds

\* setAllTimeouts(): one timer per entry of this.checks
setAllTimeouts(batch) == timeouts \cup DOMAIN batch

\* startSchedulingDelayTimeout(): nothing for an empty batch
startSchedulingDelayTimeout(batch) ==
  IF Cardinality(DOMAIN batch) = 0 THEN schedTimer ELSE "pending"

\* mutant: no fast path for the empty batch
allChecksFinishedAlwaysWaits(batch) == "pending"

\* allChecksFinished(): resolved at once for an empty batch
allChecksFinished(batch) ==
  IF Cardinality(DOMAIN batch) = 0 THEN "resolved" ELSE "pending"

\* mutant: RUN_STARTED is not emitted before the queue is started
ScheduleOkWithoutRunStarted ==
  /\ pc = "schedule"
  /\ \E batch \in Batches, ts \in SessionIds :
       /\ testSessionId' = ts
       /\ checks' = batch
       /\ timeouts' = timeouts \cup DOMAIN batch
       /\ schedTimer' = IF Cardinality(DOMAIN batch) = 0 THEN schedTimer
                        ELSE "pending"
       /\ completion' = IF Cardinality(DOMAIN batch) = 0 THEN "resolved"
                        ELSE "pending"
       /\ numChecks' = Cardinality(DOMAIN batch)
       /\ listening' = (Cardinality(DOMAIN batch) # 0)
  /\ isPaused' = FALSE
  /\ pc' = "wait"
  /\ UNCHANGED <<socketClient, endCalls, subscribed, scheduleCalls, verbose,
                 queue, pending, handlerInstalled, events, finishedCheckCount,
                 scheduledCheckCount, received, failure, lastJob>>

\* scheduleChecks() resolves: lines 82-101, up to `await allChecksFinished`
ScheduleOk ==
  /\ pc = "schedule"
  /\ \E batch \in Batches, ts \in SessionIds :
       /\ testSessionId' = ts
       /\ checks' = batch
       /\ timeouts' = setAllTimeouts(batch)
       /\ schedTimer' = startSchedulingDelayTimeout(batch)
       /\ completion' = allChecksFinished(batch)
       /\ numChecks' = Cardinality(DOMAIN batch)
       /\ listening' = (Cardinality(DOMAIN batch) # 0)
  /\ events' = Append(events, Event("RUN_STARTED", "none", "checks"))
  /\ isPaused' = FALSE
  /\ pc' = "wait"
  /\ UNCHANGED <<socketClient, endCalls, subscribed, scheduleCalls, verbose,
                 queue, pending, handlerInstalled, finishedCheckCount,
                 scheduledCheckCount, received, failure, lastJob>>

\* scheduleChecks() rejects: catch, finally
ScheduleFail ==
  /\ pc = "schedule"
  /\ Commit(catchError(Runner))
  /\ socketClient' = socketClient
  /\ finally("done")
  /\ UNCHANGED <<subscribed, scheduleCalls, verbose, checks, testSessionId,
                 queue, isPaused, handlerInstalled, listening, numChecks,
                 received, lastJob>>
  /\ failure' = "schedule"

\* `await allChecksFinished` continues: emit RUN_FINISHED, finally
RunFinished ==
  /\ pc = "wait"
  /\ completion = "resolved"
  /\ Commit(emit(Runner, Event("RUN_FINISHED", "none", "testSessionId")))
  /\ socketClient' = socketClient
  /\ finally("done")
  /\ UNCHANGED <<subscribed, scheduleCalls, verbose, checks, testSessionId,
                 queue, isPaused, handlerInstalled, listening, numChecks,
                 received, lastJob>>
  /\ failure' = failure

\* socketClient.end() settles and run() returns
SocketEnd ==
  /\ pc = "end"
  /\ socketClient' = "ended"
  /\ pc' = "done"
  /\ UNCHANGED <<endCalls, subscribed, scheduleCalls, verbose, checks,
                 testSessionId, timeouts, schedTimer, queue, isPaused, pending,
                 handlerInstalled, events, listening, numChecks,
                 finishedCheckCount, scheduledCheckCount, completion, received,
                 failure, lastJob>>

(* --------------------------------------------------- broker, queue, timers *)
\* the fields no message, fetch or timer touches
frame == <<pc, socketClient, endCalls, subscribed, scheduleCalls, verbose,
           checks, testSessionId, isPaused, handlerInstalled, listening,
           numChecks, failure>>

\* the 'message' handler (lines 116-123): this.queue.add(...)
Receive ==
  /\ handlerInstalled
  /\ socketClient = "open"
  /\ received < MaxMessages
  /\ ~JobReady
  /\ \E m \in Messages : queue' = Append(queue, m)
  /\ received' = received + 1
  /\ UNCHANGED <<timeouts, schedTimer, pending, events, finishedCheckCount,
                 scheduledCheckCount, completion, lastJob>>
  /\ UNCHANGED frame

\* the queue starts its next job: processMessage() up to its first fetch
StartJob ==
  /\ JobReady
  /\ queue' = Tail(queue)
  /\ Commit(processMessage(Runner, Head(queue)))
  /\ lastJob' = [subtopic |-> Head(queue).subtopic,
                 checkRunId |-> Head(queue).checkRunId,
                 live |-> Head(queue).checkRunId \in timeouts]
  /\ UNCHANGED <<frame, received>>

\* assets.getLogs() resolves (line 162)
GetLogsOk ==
  /\ pending.stage = "getLogs"
  /\ Commit(fetchCheckRunData(Runner, pending.checkRunId, pending.result))
  /\ UNCHANGED <<frame, queue, received, lastJob>>

\* assets.getCheckRunData() resolves (line 165)
GetCheckRunDataOk ==
  /\ pending.stage = "getCheckRunData"
  /\ Commit(fetchLinks(Runner, pending.checkRunId, pending.result))
  /\ UNCHANGED <<frame, queue, received, lastJob>>

\* getLogs() or getCheckRunData() rejects: processCheckResult and then
\* processMessage reject, the job ends without emitting
AssetsFail ==
  /\ pending.stage \in {"getLogs", "getCheckRunData"}
  /\ Commit([Runner EXCEPT !.pending = NoTask])
  /\ UNCHANGED <<frame, queue, received, lastJob>>

\* testSessions.getResultShortLinks() resolves (line 241)
GetShortLinksOk ==
  /\ pending.stage = "getResultShortLinks"
  /\ Commit(reportResult(Runner, pending.checkRunId, "links"))
  /\ UNCHANGED <<frame, queue, received, lastJob>>

\* mutant: getShortLinks has no try/catch, the rejection ends the job
GetShortLinksFailRethrown ==
  /\ pending.stage = "getResultShortLinks"
  /\ Commit([Runner EXCEPT !.pending = NoTask])
  /\ UNCHANGED <<frame, queue, received, lastJob>>

\* getResultShortLinks() rejects: caught at line 243, links is undefined
GetShortLinksFail ==
  /\ pending.stage = "getResultShortLinks"
  /\ Commit(reportResult(Runner, pending.checkRunId, "undefined"))
  /\ UNCHANGED <<frame, queue, received, lastJob>>

\* the timer of check c falls due (lines 185-195)
TimeoutFireOf(c) ==
  /\ ~JobReady
  /\ c \in timeouts
  /\ Commit(timeoutCallback(Runner, c))
  /\ UNCHANGED <<frame, queue, received, lastJob>>

TimeoutFire == \E c \in CheckRunIds : TimeoutFireOf(c)

\* callback of the scheduling-delay timer (lines 218-221)
schedulingDelayCallback(r) ==
  [emit(r, Event("MAX_SCHEDULING_DELAY_EXCEEDED", "none", "none"))
     EXCEPT !.schedTimer = "fired"]

\* the scheduling-delay timer falls due
SchedulingDelayFire ==
  /\ ~JobReady
  /\ schedTimer = "pending"
  /\ Commit(schedulingDelayCallback(Runner))
  /\ UNCHANGED <<frame, queue, received, lastJob>>

Next ==
  \/ Run
  \/ ConnectOk
  \/ ConnectFail
  \/ SubscribeOk
  \/ SubscribeFail
  \/ ScheduleOk
  \/ ScheduleFail
  \/ RunFinished
  \/ SocketEnd
  \/ Receive
  \/ StartJob
  \/ GetLogsOk
  \/ GetCheckRunDataOk
  \/ AssetsFail
  \/ GetShortLinksOk
  \/ GetShortLinksFail
  \/ TimeoutFire
  \/ SchedulingDelayFire

Spec == Init /\ [][Next]_vars

\* A listener of RUN_STARTED throws out of emit (line 99): everything of
\* lines 82-97 has happened, queue.start() has not; catch, finally
RunStartedThrows ==
  /\ pc = "schedule"
  /\ \E batch \in Batches, ts \in SessionIds :
       /\ testSessionId' = ts
       /\ checks' = batch
       /\ numChecks' = Cardinality(DOMAIN batch)
       /\ listening' = (Cardinality(DOMAIN batch) # 0)
       /\ Commit(catchErrorOf(
            [Runner EXCEPT
               !.timeouts = setAllTimeouts(batch),
               !.schedTimer = startSchedulingDelayTimeout(batch),
               !.completion = allChecksFinished(batch),
               !.events = Append(@, Event("RUN_STARTED", "none", "checks"))],
            batch))
  /\ socketClient' = socketClient
  /\ finally("done")
  /\ failure' = "listener"
  /\ UNCHANGED <<subscribed, scheduleCalls, verbose, queue, isPaused,
                 handlerInstalled, received, lastJob>>

\* A listener of RUN_FINISHED throws out of emit (line 104): catch, finally
RunFinishedThrows ==
  /\ pc = "wait"
  /\ completion = "resolved"
  /\ Commit(catchError(emit(Runner,
                             Event("RUN_FINISHED", "none", "testSessionId"))))
  /\ socketClient' = socketClient
  /\ finally("done")
  /\ failure' = "listener"
  /\ UNCHANGED <<subscribed, scheduleCalls, verbose, checks, testSessionId,
                 queue, isPaused, handlerInstalled, listening, numChecks,
                 received, lastJob>>

\* run() with listeners of its own two emits that may throw: the only way
\* into the catch block once the timers are armed
NextWithListenerErrors ==
  \/ Next
  \/ RunStartedThrows
  \/ RunFinishedThrows

SpecWithListenerErrors == Init /\ [][NextWithListenerErrors]_vars

\* The event loop runs every continuation that is ready: armed timers fall
\* due, fetches and broker calls settle one way or the other, the queue
\* starts its next job.  Nothing obliges the broker to deliver a message.
Fairness ==
  /\ WF_vars(Run)
  /\ WF_vars(ConnectOk \/ ConnectFail)
  /\ WF_vars(SubscribeOk \/ SubscribeFail)
  /\ WF_vars(ScheduleOk \/ ScheduleFail)
  /\ WF_vars(RunFinished)
  /\ WF_vars(SocketEnd)
  /\ WF_vars(StartJob)
  /\ WF_vars(GetLogsOk \/ AssetsFail)
  /\ WF_vars(GetCheckRunDataOk \/ AssetsFail)
  /\ WF_vars(GetShortLinksOk \/ GetShortLinksFail)
  /\ \A c \in CheckRunIds : WF_vars(TimeoutFireOf(c))
  /\ WF_vars(SchedulingDelayFire)

FairSpec == Spec /\ Fairness

(* --------------------------------------------------------- event history *)
Emitted(type) == \E i \in 1..Len(events) : events[i].type = type

EmittedFor(type, c) ==
  \E i \in 1..Len(events) : events[i].type = type /\ events[i].checkRunId = c

Count(type) == Cardinality({i \in 1..Len(events) : events[i].type = type})

CountFor(type, c) ==
  Cardinality({i \in 1..Len(events) :
                 events[i].type = type /\ events[i].checkRunId = c})

PerCheckTypes ==
  {"CHECK_INPROGRESS", "CHECK_FAILED", "CHECK_SUCCESSFUL", "CHECK_FINISHED"}

(* ---------------------------------------------------------------- claims *)
\* C2: once the scheduling call has succeeded with a non-empty batch, every
\* check eventually emits CHECK_FINISHED, the completion future resolves and
\* RUN_FINISHED is emitted.
C2_EveryCheckFinishes ==
  (pc = "wait" /\ numChecks > 0)
    ~> (/\ \A c \in DOMAIN checks : EmittedFor("CHECK_FINISHED", c)
        /\ completion = "resolved"
        /\ Emitted("RUN_FINISHED"))

Terminal == {"CHECK_FAILED", "CHECK_SUCCESSFUL"}

\* the job in progress or the queue has nothing left to do
QueueIdle == pending = NoTask /\ queue = <<>>

\* C1: CHECK_FINISHED is emitted at most once per check, each CHECK_FINISHED
\* directly follows a CHECK_FAILED or CHECK_SUCCESSFUL of the same check, and
\* no CHECK_FAILED, CHECK_SUCCESSFUL or CHECK_FINISHED follows the
\* CHECK_FINISHED of the same check.
C1_FinishedOnceAfterTerminal ==
  /\ \A c \in CheckRunIds \cup UnknownIds : CountFor("CHECK_FINISHED", c) <= 1
  /\ \A i \in 1..Len(events) :
       events[i].type = "CHECK_FINISHED" =>
         /\ i > 1
         /\ events[i - 1].type \in Terminal
         /\ events[i - 1].checkRunId = events[i].checkRunId
  /\ \A i, j \in 1..Len(events) :
       (i < j /\ events[i].type = "CHECK_FINISHED"
              /\ events[j].checkRunId = events[i].checkRunId)
         => events[j].type \notin Terminal \cup {"CHECK_FINISHED"}

\* one check succeeded and a second message for it was handled afterwards,
\* the other check timed out
C1_Witness ==
  /\ EmittedFor("CHECK_SUCCESSFUL", "c1")
  /\ EmittedFor("CHECK_FINISHED", "c1")
  /\ \E i \in 1..Len(events) :
       events[i] = Event("CHECK_FAILED", "c2", "timeout")
  /\ EmittedFor("CHECK_FINISHED", "c2")
  /\ received = MaxMessages
  /\ QueueIdle
  /\ lastJob.checkRunId = "c1" /\ ~lastJob.live

\* C3: RUN_FINISHED is emitted at most once, and only when the number of
\* CHECK_FINISHED events emitted before it equals the captured numChecks,
\* every check of the batch being among them.
C3_RunFinishedAfterAllChecks ==
  /\ Count("RUN_FINISHED") <= 1
  /\ \A i \in 1..Len(events) :
       events[i].type = "RUN_FINISHED" =>
         /\ Cardinality({j \in 1..(i - 1) : events[j].type = "CHECK_FINISHED"})
              = numChecks
         /\ numChecks = Cardinality(DOMAIN checks)
         /\ \A c \in DOMAIN checks :
              \E j \in 1..(i - 1) :
                events[j].type = "CHECK_FINISHED" /\ events[j].checkRunId = c

C3_Witness ==
  /\ Emitted("RUN_FINISHED")
  /\ numChecks = 2
  /\ finishedCheckCount = 2

\* C4: for one check the timeout path and the message path exclude each
\* other: a check never gets a timeout CHECK_FAILED together with a
\* CHECK_SUCCESSFUL or a message CHECK_FAILED, it gets at most one terminal
\* event, and while its run-end job is suspended on a fetch its Timeout
\* Entry is already gone.
C4_TimeoutExcludesMessage ==
  /\ \A c \in CheckRunIds :
       /\ ~(/\ \E i \in 1..Len(events) :
                 events[i] = Event("CHECK_FAILED", c, "timeout")
            /\ \/ EmittedFor("CHECK_SUCCESSFUL", c)
               \/ \E i \in 1..Len(events) :
                    events[i] = Event("CHECK_FAILED", c, "message"))
       /\ CountFor("CHECK_FAILED", c) + CountFor("CHECK_SUCCESSFUL", c) <= 1
  /\ pending # NoTask =>
       /\ pending.checkRunId \notin timeouts
       /\ ~EmittedFor("CHECK_FAILED", pending.checkRunId)

\* c1 timed out and a run-end for it was discarded afterwards; c2 succeeded
\* after its job had been suspended on the short-link fetch
C4_Witness ==
  /\ \E i \in 1..Len(events) : events[i] = Event("CHECK_FAILED", "c1", "timeout")
  /\ \E i \in 1..Len(events) : events[i] = Event("CHECK_SUCCESSFUL", "c2", "links")
  /\ lastJob = [subtopic |-> "run-end", checkRunId |-> "c1", live |-> FALSE]
  /\ QueueIdle

\* the events a step appends to the log
NewEvents == SubSeq(events', Len(events) + 1, Len(events'))

\* C5: a step that emits CHECK_FAILED for a check (its timer fell due, or an
\* error message was handled) emits exactly CHECK_FAILED then CHECK_FINISHED
\* for that check, removes that check's Timeout Entry and no other, and
\* leaves the Check Run Records and the position of run() alone; once
\* scheduling has succeeded ERROR is never emitted, and as soon as every
\* check of the batch has finished the completion future is resolved, so
\* that run() goes on to RUN_FINISHED.
C5_CheckFailureIsolated ==
  /\ [][\A c \in CheckRunIds :
          (Len(events') > Len(events)
             /\ NewEvents[1].type = "CHECK_FAILED"
             /\ NewEvents[1].checkRunId = c)
          => /\ Len(NewEvents) = 2
             /\ NewEvents[2] = Event("CHECK_FINISHED", c, "check")
             /\ c \in timeouts
             /\ timeouts' = timeouts \ {c}
             /\ checks' = checks
             /\ pc' = pc
             /\ failure' = failure]_vars
  /\ [](Emitted("RUN_STARTED") => ~Emitted("ERROR"))
  /\ []((pc = "wait" /\ \A c \in DOMAIN checks : EmittedFor("CHECK_FINISHED", c))
          => completion = "resolved")
  /\ [][(pc = "wait" /\ completion = "resolved" /\ pc' # pc)
          => NewEvents = <<Event("RUN_FINISHED", "none", "testSessionId")>>]_vars

\* c1 timed out, c2 failed by an error message, and the run finished
C5_Witness ==
  /\ \E i \in 1..Len(events) : events[i] = Event("CHECK_FAILED", "c1", "timeout")
  /\ \E i \in 1..Len(events) : events[i] = Event("CHECK_FAILED", "c2", "message")
  /\ Emitted("RUN_FINISHED")
  /\ ~Emitted("ERROR")

\* C6: a job whose checkRunId has no live Timeout Entry emits nothing and
\* leaves checks, timeouts, both counters, the completion future and the
\* scheduling-delay timer unchanged, whatever its subtopic.
C6_NoTimeoutEntryNoEffect ==
  [][(JobReady /\ queue' = Tail(queue)
        /\ Head(queue).checkRunId \notin timeouts)
       => UNCHANGED <<events, checks, timeouts, finishedCheckCount,
                      scheduledCheckCount, completion, schedTimer, pending>>]_vars

\* a second run-end for a check that already finished by run-end has been
\* handled, and the finished count is still one
C6_Witness ==
  /\ lastJob = [subtopic |-> "run-end", checkRunId |-> "c1", live |-> FALSE]
  /\ EmittedFor("CHECK_SUCCESSFUL", "c1")
  /\ CountFor("CHECK_FINISHED", "c1") = 1
  /\ finishedCheckCount = 1
  /\ numChecks = 2
  /\ QueueIdle

\* C7: when the scheduling call raises, ERROR is the only event of the run,
\* the queue is never started, no job is handled, and no Timeout Entry or
\* scheduling-delay timer is pending.
C7_SchedulingFailureOnlyError ==
  failure = "schedule" =>
    /\ events = <<Event("ERROR", "none", "err")>>
    /\ isPaused
    /\ lastJob = NoJob
    /\ pending = NoTask
    /\ timeouts = {}
    /\ schedTimer \notin {"pending", "cleared"}

\* the scheduling call raised with two messages already in the queue
C7_Witness ==
  /\ failure = "schedule"
  /\ pc = "done"
  /\ Len(queue) >= 2

InProgressWithin(n) ==
  {c \in DOMAIN checks :
     \E j \in 1..n : events[j].type = "CHECK_INPROGRESS"
                     /\ events[j].checkRunId = c}

\* C9: for a non-empty batch MAX_SCHEDULING_DELAY_EXCEEDED is emitted at most
\* once, never after every check of the batch reached in-progress, and the
\* scheduling-delay timer is only ever cancelled (so that it emits nothing
\* when it falls due) once all numChecks distinct checks reached in-progress.
C9_DelayExceededIffNotAllInProgress ==
  /\ Count("MAX_SCHEDULING_DELAY_EXCEEDED") <= 1
  /\ \A i \in 1..Len(events) :
       events[i].type = "MAX_SCHEDULING_DELAY_EXCEEDED" =>
         Cardinality(InProgressWithin(i - 1)) < numChecks
  /\ schedTimer \in {"cleared", "disabled"} =>
       Cardinality(InProgressWithin(Len(events))) = numChecks

\* what the code does guarantee about the scheduling-delay event: at most
\* one emission, none after every check reached in-progress
DelayExceededNeverAfterAllInProgress ==
  /\ Count("MAX_SCHEDULING_DELAY_EXCEEDED") <= 1
  /\ \A i \in 1..Len(events) :
       events[i].type = "MAX_SCHEDULING_DELAY_EXCEEDED" =>
         Cardinality(InProgressWithin(i - 1)) < numChecks

\* C10: for an empty batch the completion future is resolved from the start,
\* no Timeout Entry and no scheduling-delay timer is armed, and the run emits
\* RUN_STARTED then RUN_FINISHED and nothing else, whatever messages arrive.
C10_EmptyBatch ==
  (Emitted("RUN_STARTED") /\ DOMAIN checks = {}) =>
    /\ completion = "resolved"
    /\ timeouts = {}
    /\ schedTimer = "unset"
    /\ ~listening
    /\ events \in {<<Event("RUN_STARTED", "none", "checks")>>,
                   <<Event("RUN_STARTED", "none", "checks"),
                     Event("RUN_FINISHED", "none", "testSessionId")>>}
    /\ pc \in {"end", "done"} => Len(events) = 2

\* an empty batch ran to the end and every message delivered on the way was
\* handled, a run-end last
C10_Witness ==
  /\ Emitted("RUN_STARTED")
  /\ DOMAIN checks = {}
  /\ pc = "done"
  /\ received = MaxMessages
  /\ QueueIdle
  /\ lastJob.subtopic = "run-end"

\* C11: when the short-link fetch fails during run-end processing, the job
\* still emits CHECK_SUCCESSFUL without links and then CHECK_FINISHED for
\* its check, the finished count advances by one, and no ERROR is emitted.
C11_ShortLinkFailureSwallowed ==
  [][GetShortLinksFail =>
       /\ NewEvents = <<Event("CHECK_SUCCESSFUL", pending.checkRunId, "undefined"),
                        Event("CHECK_FINISHED", pending.checkRunId, "check")>>
       /\ finishedCheckCount' = finishedCheckCount + 1
       /\ pending' = NoTask
       /\ failure' = "none"
       /\ pc' = pc]_vars

\* the short-link fetch of c1 was started (there is a testSessionId) and
\* failed; c1 succeeded without links
C11_Witness ==
  /\ testSessionId # "none"
  /\ \E i \in 1..(Len(events) - 1) :
       /\ events[i] = Event("CHECK_SUCCESSFUL", "c1", "undefined")
       /\ events[i + 1] = Event("CHECK_FINISHED", "c1", "check")
  /\ finishedCheckCount >= 1
  /\ ~Emitted("ERROR")

\* C12: when getLogs or getCheckRunData is being fetched for a run-end
\* result, the check goes on to emit CHECK_FINISHED and the run goes on to
\* RUN_FINISHED, whether the fetch returns or fails.
C12_AssetFailureStillFinishes ==
  \A c \in CheckRunIds :
    (pending.stage \in {"getLogs", "getCheckRunData"} /\ pending.checkRunId = c)
      ~> (CountFor("CHECK_FINISHED", c) = 1 /\ Emitted("RUN_FINISHED"))

\* C13: while run() waits for the batch, a check of the batch has a live
\* Timeout Entry if and only if no CHECK_FAILED or CHECK_SUCCESSFUL has been
\* emitted for it and no run-end job is on the way to emitting one; a
\* Timeout Entry is only ever created when the registry is armed, so a
\* removed entry is never re-created.
C13_TimeoutEntryIffNotTerminal ==
  /\ [](pc = "wait" =>
         \A c \in DOMAIN checks :
           c \in timeouts <=>
             ~(\/ EmittedFor("CHECK_FAILED", c)
               \/ EmittedFor("CHECK_SUCCESSFUL", c)
               \/ (pending # NoTask /\ pending.checkRunId = c)))
  /\ [][\A c \in CheckRunIds :
          (c \in timeouts' /\ c \notin timeouts) => pc = "schedule"]_vars

\* C14: no job is handled while the queue is paused; the step that starts
\* the queue is the continuation of the scheduling call and leaves checks
\* replaced by the scheduled batch, a Timeout Entry for every check of it and
\* the completion tracker already observing; from then on every
\* CHECK_FINISHED is counted by the tracker.
C14_QueueStartsAfterArming ==
  /\ [](isPaused => (lastJob = NoJob /\ pending = NoTask
                     /\ Len(queue) = received))
  /\ [][(isPaused /\ ~isPaused') =>
          /\ pc = "schedule" /\ subscribed /\ scheduleCalls = 1
          /\ checks' \in Batches
          /\ timeouts' = DOMAIN checks'
          /\ numChecks' = Cardinality(DOMAIN checks')
          /\ finishedCheckCount' = 0
          /\ IF numChecks' = 0 THEN completion' = "resolved"
             ELSE listening' /\ completion' = "pending"
          /\ queue' = queue]_vars
  /\ [](listening => finishedCheckCount = Count("CHECK_FINISHED"))

\* the queue has just been started with two results that arrived before the
\* scheduling call returned; every check of the batch has its Timeout Entry
C14_Witness ==
  /\ ~isPaused
  /\ pc = "wait"
  /\ lastJob = NoJob
  /\ Len(queue) = 2
  /\ numChecks = 2
  /\ timeouts = DOMAIN checks
  /\ \A i \in 1..2 : queue[i].subtopic = "run-end"

\* C15: scheduleChecks is invoked at most once and only after the message
\* handler is installed and the subscription has completed; when subscribing
\* fails it is never invoked and the run emits ERROR only.
C15_SubscribeBeforeSchedule ==
  /\ scheduleCalls <= 1
  /\ scheduleCalls = 1 => (handlerInstalled /\ subscribed)
  /\ pc \in {"schedule", "wait"} => (handlerInstalled /\ subscribed)
  /\ failure = "subscribe" =>
       /\ scheduleCalls = 0
       /\ events = <<Event("ERROR", "none", "err")>>
       /\ pc \in {"end", "done"}

\* subscribing failed with a message already received; the run ended
C15_Witness ==
  /\ failure = "subscribe"
  /\ pc = "done"
  /\ scheduleCalls = 0
  /\ received > 0

\* C16: jobs are taken from the head of the queue, one at a time and only
\* when the queue is started and no job is in progress; a job suspended on a
\* fetch keeps later jobs waiting; messages are appended in arrival order
\* and are all retained while the queue is paused.
C16_SerializedFifo ==
  /\ [][queue' # queue =>
          \/ \E m \in Messages : queue' = Append(queue, m)
          \/ /\ queue # <<>>
             /\ queue' = Tail(queue)
             /\ ~isPaused
             /\ pending = NoTask
             /\ lastJob'.checkRunId = Head(queue).checkRunId
             /\ lastJob'.subtopic = Head(queue).subtopic]_vars
  /\ [][lastJob' # lastJob => (queue # <<>> /\ queue' = Tail(queue))]_vars
  /\ [][pending # NoTask => (lastJob' = lastJob /\ Len(queue') >= Len(queue))]_vars
  /\ [](isPaused => (Len(queue) = received /\ lastJob = NoJob))

\* a run-end job is suspended on a fetch while a later message waits
C16_Witness ==
  /\ ~isPaused
  /\ pending # NoTask
  /\ Len(queue) = 1
  /\ lastJob.checkRunId = pending.checkRunId
  /\ queue[1].checkRunId # pending.checkRunId

\* C17: once ERROR has been emitted no Timeout Entry and no scheduling-delay
\* timer is pending, and no CHECK_INPROGRESS, CHECK_FAILED, CHECK_SUCCESSFUL,
\* CHECK_FINISHED or MAX_SCHEDULING_DELAY_EXCEEDED is emitted any more,
\* whatever is queued or still arrives.
C17_NothingAfterError ==
  /\ [](Emitted("ERROR") => (timeouts = {} /\ schedTimer # "pending"))
  /\ [][Emitted("ERROR") =>
          \A i \in 1..Len(NewEvents) :
            NewEvents[i].type \notin
              PerCheckTypes \cup {"MAX_SCHEDULING_DELAY_EXCEEDED"}]_vars

\* the run failed after arming the timers of two checks, with a message
\* waiting in the queue; all timers were cancelled
C17_Witness ==
  /\ failure = "listener"
  /\ Emitted("ERROR")
  /\ numChecks = 2
  /\ isPaused
  /\ Len(queue) >= 1
  /\ timeouts = {}
  /\ schedTimer = "disabled"
  /\ pc = "done"

\* C18: every CHECK_INPROGRESS, CHECK_FAILED, CHECK_SUCCESSFUL,
\* CHECK_FINISHED and MAX_SCHEDULING_DELAY_EXCEEDED comes after RUN_STARTED,
\* and no per-check event comes after RUN_FINISHED.
C18_RunStartedFirst ==
  /\ \A i \in 1..Len(events) :
       events[i].type \in PerCheckTypes \cup {"MAX_SCHEDULING_DELAY_EXCEEDED"}
         => \E j \in 1..(i - 1) : events[j].type = "RUN_STARTED"
  /\ \A i, j \in 1..Len(events) :
       (i < j /\ events[i].type = "RUN_FINISHED")
         => events[j].type \notin PerCheckTypes
  /\ Count("RUN_STARTED") <= 1

\* RUN_STARTED came first; c1 succeeded, c2 timed out, a run-end for c2 was
\* discarded afterwards, and the run finished
C18_Witness ==
  /\ Len(events) >= 1
  /\ events[1].type = "RUN_STARTED"
  /\ EmittedFor("CHECK_SUCCESSFUL", "c1")
  /\ \E i \in 1..Len(events) : events[i] = Event("CHECK_FAILED", "c2", "timeout")
  /\ Emitted("RUN_FINISHED")
  /\ lastJob = [subtopic |-> "run-end", checkRunId |-> "c2", live |-> FALSE]

\* C19: RUN_FINISHED is the last event of the run, and when it is emitted no
\* per-check timer and no scheduling-delay timer is pending.
C19_RunFinishedIsLast ==
  /\ \A i \in 1..Len(events) :
       events[i].type = "RUN_FINISHED" => i = Len(events)
  /\ Emitted("RUN_FINISHED") => (timeouts = {} /\ schedTimer # "pending")

\* C20: every Timeout Entry belongs to a Check Run Record; checks only
\* changes in the continuation of the scheduling call, never while a message
\* is handled or a timer fires; so a job that passes the first guard of
\* processMessage always passes the second.
C20_TimeoutsWithinChecks ==
  /\ [](timeouts \subseteq DOMAIN checks)
  /\ [][checks' # checks => (pc = "schedule" /\ pc' = "wait")]_vars
  /\ [](JobReady =>
         (hasTimeout(Runner, Head(queue).checkRunId)
            => hasCheck(Head(queue).checkRunId)))
  /\ [](lastJob.live => lastJob.checkRunId \in DOMAIN checks)

\* one check of two has finished, and the last job handled passed both guards
C20_Witness ==
  /\ numChecks = 2
  /\ Cardinality(timeouts) = 1
  /\ lastJob.live
  /\ lastJob.subtopic = "run-start"
  /\ EmittedFor("CHECK_INPROGRESS", lastJob.checkRunId)
  /\ QueueIdle

====
